---- MODULE Spec2Model ----
(***************************************************************************)
(* A model of the lead scraper: the site crawler (scraper/crawler.py), the *)
(* search aggregator (scraper/search_providers.py), the domain helpers     *)
(* (scraper/util.py) and the pipeline (scraper/pipeline.py).               *)
(*                                                                         *)
(* Strings the code inspects are modelled as sequences of tokens, so that  *)
(* substring tests, lower-casing and str(int) are computed, not assumed.   *)
(***************************************************************************)
EXTENDS Integers, Sequences, FiniteSets, TLC

VARIABLES
    pc,            \* position of the (single-threaded) program
    exc,           \* the exception that propagated out of the program, or "none"
    \* ---- crawl_site (crawler.py)
    start_url,     \* the argument start_url
    max_pages,     \* the argument max_pages
    to_visit,      \* the list to_visit
    visited,       \* the set visited
    crawled,       \* the list `results` of crawl_site: <<url, soup>> pairs
    fetchLog,      \* history: every polite_get call in order: the URL, and whether
                   \* it gave a response with content
    \* ---- collect_results_for_pages (search_providers.py)
    provider,      \* "cse" (GoogleCSEProvider) or "serpapi" (SerpApiProvider)
    start_page,    \* the argument start_page
    end_page,      \* the argument end_page
    page,          \* the loop variable page
    raw,           \* the list `results` of collect_results_for_pages
    searchLog,     \* history: every provider.search call: page, start_index, items returned
    \* ---- run_pipeline (pipeline.py)
    max_per_city,  \* the argument max_per_city
    results,       \* the list `results` after dedupe_by_domain and truncation
    suppression,   \* the suppression set
    credentials,   \* whether the selected provider's credentials are in the environment
    cities,        \* the argument cities
    cidx,          \* position of `for city in cities`
    sidx,          \* position of `for service in services`
    ridx,          \* position of `for i, r in enumerate(results, 1)`
    sink,          \* the output file: "unopened", "open" or "closed"
    written,       \* the rows handed to the csv writer, header first
    flushed,       \* the rows that reached the disk
    \* ---- process_result (pipeline.py)
    service,       \* the argument service
    city,          \* the argument city
    result,        \* the argument result
    all_emails,    \* the set all_emails
    all_phones,    \* the set all_phones
    business_names,      \* the set business_names
    page_urls,           \* the list page_urls
    automotive_business, \* the flag automotive_business
    pidx,          \* position of the loop over crawl_site's pages
    rows_ret,      \* the list process_result returned
    \* ---- the page classifier (util.py)
    cls_text,      \* the argument page_text
    cls_profile,   \* the keyword profile: positive, negative, min_positive
    cls_pos,       \* pos_score of the last call
    cls_neg,       \* neg_score of the last call
    cls_ret,       \* the value the last call returned
    \* ---- extract_emails (extractors.py)
    ext_soup,      \* the argument soup: its mailto addresses and pattern matches
    ext_llm,       \* what the LLM call does when it is made
    ext_called,    \* history: whether extract_emails_with_llm was called
    ext_ret        \* the set extract_emails returned

crawlVars == <<start_url, max_pages, to_visit, visited, crawled, fetchLog>>
searchVars == <<provider, start_page, end_page, page, raw, searchLog>>
pipeCfg == <<max_per_city, suppression, credentials, cities>>
pipeLoop == <<cidx, sidx, ridx, sink, written, flushed>>
pipeVars == <<results, pipeCfg, pipeLoop>>
procVars == <<service, city, result, all_emails, all_phones, business_names, page_urls,
              automotive_business, pidx, rows_ret>>
clsVars == <<cls_text, cls_profile, cls_pos, cls_neg, cls_ret>>
extVars == <<ext_soup, ext_llm, ext_called, ext_ret>>
vars == <<pc, exc, crawlVars, searchVars, pipeVars, procVars, clsVars, extVars>>

\* ------------------------------------------------------------------ bounds
\* crawl_site is explored for max_pages in 0..MaxPagesBound
MaxPagesBound == 3
\* search pages are numbered 1..MaxPage
MaxPage == 2
\* one collect_results_for_pages call gathers at most MaxResults results
MaxResults == 4
\* max_per_city ranges over 0..MaxPerCityBound
MaxPerCityBound == 2
\* in a full run one collect_results_for_pages call gathers at most PipeMaxResults
PipeMaxResults == 2

\* ------------------------------------------------------------- sequences
Range(s) == {s[i] : i \in 1..Len(s)}

\* all orderings of a finite set (list(set) has an arbitrary order)
RECURSIVE Perms(_)
Perms(S) ==
    IF S = {} THEN {<<>>}
    ELSE UNION {{<<x>> \o p : p \in Perms(S \ {x})} : x \in S}

\* `needle in hay` for strings, on token sequences
Contains(hay, needle) ==
    \E i \in 0..(Len(hay) - Len(needle)) :
        \A j \in 1..Len(needle) : hay[i + j] = needle[j]

\* str.lower() on one token
LowerTok(t) ==
    CASE t = "ACME" -> "acme"
      [] t = "COM"  -> "com"
      [] t = "Sales" -> "sales"
      [] t = "Blocked" -> "blocked"
      [] t = "Car" -> "car"
      [] t = "DO NOT CONTACT" -> "do not contact"
      [] t = "Hair Salon" -> "hair salon"
      [] t = "SPA" -> "spa"
      [] t = "Test" -> "test"
      [] OTHER      -> t

Lower(s) == [i \in 1..Len(s) |-> LowerTok(s[i])]

\* ------------------------------------------------------------------- URLs
\* A URL is [rel, sub, domain, suffix, path]: tldextract's split of the host
\* (subdomain, domain, public suffix) and the path.  domain is a token
\* sequence; an IP-address host has no public suffix.  rel marks a relative
\* href (no host of its own).
Url(sub, domain, suffix, path) ==
    [rel |-> FALSE, sub |-> sub, domain |-> domain, suffix |-> suffix, path |-> path]

RelHref(path) ==
    [rel |-> TRUE, sub |-> "", domain |-> <<>>, suffix |-> "", path |-> path]

LinkAcme      == Url("www", <<"acme">>, "com", "/services")
LinkAcmeUpper == Url("", <<"ACME">>, "COM", "/x")
LinkJoes      == Url("", <<"joes">>, "co.uk", "/")
LinkYelp      == Url("www", <<"yelp">>, "com", "/biz/acme")
LinkRoof      == Url("", <<"roof", "pros">>, "com", "/")
LinkIP        == Url("", <<"10.0.0.1">>, "", "/")

\* The "no domain" result of normalize_domain (None; `not domain` is true)
NoDomain == <<>>

\* tldextract: registered_domain is domain + "." + suffix, "" if either is empty
registered_domain(url) ==
    IF url.domain = <<>> \/ url.suffix = "" THEN <<>>
    ELSE url.domain \o <<url.suffix>>

normalize_domain(url) ==
    IF registered_domain(url) = <<>> THEN NoDomain
    ELSE Lower(registered_domain(url))

is_same_registered_domain(a_url, b_url) ==
    /\ normalize_domain(a_url) # NoDomain
    /\ normalize_domain(a_url) = normalize_domain(b_url)

\* urllib.parse.urljoin(base, href)
urljoin(base, href) ==
    IF href.rel THEN [base EXCEPT !.path = href.path] ELSE href

\* f"{parsed.scheme}://{parsed.netloc}"
base_origin(url) == [url EXCEPT !.path = ""]

HomeUrl(url) == [url EXCEPT !.path = "/"]

\* ------------------------------------------------------------------ pages
\* An anchor of a page: where it sits, whether its href or text carries one of
\* the contact/help/support keywords, and its href.
Anchor(region, kw, href) == [region |-> region, kw |-> kw, href |-> href]

AContact == Anchor("header", TRUE, RelHref("/contact"))
AHelp    == Anchor("nav", TRUE, RelHref("/help"))
AHome    == Anchor("header", TRUE, RelHref("/"))
ABlog    == Anchor("header", FALSE, RelHref("/blog"))
AExt     == Anchor("nav", TRUE, Url("www", <<"facebook">>, "com", "/help"))
AFooter  == Anchor("footer", TRUE, RelHref("/contact-us"))

Anchors == {AContact, AHelp, AHome, ABlog, AExt, AFooter}

\* A parsed page (soup): its anchors, the words and phrases of its visible
\* text, the addresses of its mailto: links, the matches of the e-mail
\* patterns and of PHONE_RE in it, and its JSON-LD script blocks.
Page(anchors, body) ==
    [anchors |-> anchors, text |-> body.text, mailto |-> body.mailto,
     matches |-> body.matches, phones |-> body.phones, jsonld |-> body.jsonld]

Body(text, mailto, matches, phones, jsonld) ==
    [text |-> text, mailto |-> mailto, matches |-> matches, phones |-> phones,
     jsonld |-> jsonld]

PlainBody == Body({}, {}, {}, {}, <<>>)
PlainPage == Page({}, PlainBody)
HomePages == {Page(A, PlainBody) : A \in SUBSET Anchors}

discover_header_links(base_url, soup) ==
    {urljoin(base_url, a.href) :
        a \in {b \in soup.anchors :
                 /\ b.region \in {"header", "nav"}
                 /\ b.kw
                 /\ is_same_registered_domain(base_url, urljoin(base_url, b.href))}}

\* ------------------------------------------------------------- polite_get
\* What the network does with one request: an exception, or a response with
\* a status code and a body ("empty" or a page).
Exceptions == {"Timeout", "ConnectionError"}
Statuses   == {200, 404, 500}

Outcomes(Pages) ==
    [kind : {"exc"}, err : Exceptions, status : {0}, content : {"empty"}, page : {PlainPage}]
    \cup [kind : {"resp"}, err : {"none"}, status : Statuses, content : {"empty"}, page : {PlainPage}]
    \cup [kind : {"resp"}, err : {"none"}, status : Statuses, content : {"html"}, page : Pages]

\* polite_get returns the response, or None
polite_get_ok(o) == o.kind = "resp" /\ 200 <= o.status /\ o.status < 400

\* `not resp or not resp.content`
fetch_failed(o) == ~polite_get_ok(o) \/ o.content = "empty"

\* The parts of the state a specification does not use
CrawlIdle ==
    /\ start_url = LinkAcme
    /\ max_pages = 0
    /\ to_visit = <<>>
    /\ visited = {}
    /\ crawled = <<>>
    /\ fetchLog = <<>>

SearchIdle ==
    /\ provider = "cse"
    /\ start_page = 1
    /\ end_page = 0
    /\ page = 1
    /\ raw = <<>>
    /\ searchLog = <<>>

LoopIdle ==
    /\ credentials = TRUE
    /\ cities = <<>>
    /\ cidx = 1
    /\ sidx = 1
    /\ ridx = 1
    /\ sink = "unopened"
    /\ written = <<>>
    /\ flushed = <<>>

PipeIdle ==
    /\ max_per_city = 0
    /\ results = <<>>
    /\ suppression = {}
    /\ LoopIdle

ProcIdle ==
    /\ service = "car mechanic"
    /\ city = "Joliet"
    /\ result = [link |-> LinkAcme, rank |-> <<1>>]
    /\ all_emails = {}
    /\ all_phones = {}
    /\ business_names = {}
    /\ page_urls = <<>>
    /\ automotive_business = FALSE
    /\ pidx = 1
    /\ rows_ret = <<>>

ClsIdle ==
    /\ cls_text = {}
    /\ cls_profile = [positive |-> {}, negative |-> {}, min_positive |-> 0]
    /\ cls_pos = 0
    /\ cls_neg = 0
    /\ cls_ret = FALSE

\* a crawl that tries the header links of the site even when the homepage
\* could not be fetched
CrawlHome_GoesOn(Pages) ==
    /\ pc = "crawl_home"
    /\ \E o \in Outcomes(Pages) :
        /\ fetchLog' = Append(fetchLog, [url |-> HomeUrl(start_url), ok |-> ~fetch_failed(o)])
        /\ crawled' = IF fetch_failed(o) THEN <<>>
                      ELSE <<[url |-> HomeUrl(start_url), soup |-> o.page]>>
        /\ IF ~fetch_failed(o) /\ 1 >= max_pages
           THEN /\ to_visit' = <<>>
                /\ pc' = "crawl_ret"
           ELSE /\ to_visit' \in Perms(discover_header_links(base_origin(start_url), o.page))
                /\ pc' = "crawl_loop"
    /\ visited' = {}
    /\ UNCHANGED <<exc, start_url, max_pages, searchVars, pipeVars, procVars>>
    /\ UNCHANGED clsVars
    /\ UNCHANGED extVars

ExtIdle ==
    /\ ext_soup = [mailto |-> {}, matches |-> {}]
    /\ ext_llm = [ok |-> FALSE, why |-> "no_api_key", emails |-> {}]
    /\ ext_called = FALSE
    /\ ext_ret = {}

\* --------------------------------------------------------------- crawl_site
\* Fetch the homepage; on failure return []; else record it, return at once
\* when the budget is already used, else harvest the header links.
CrawlHome(Pages) ==
    /\ pc = "crawl_home"
    /\ \E o \in Outcomes(Pages) :
        /\ fetchLog' = Append(fetchLog, [url |-> HomeUrl(start_url), ok |-> ~fetch_failed(o)])
        /\ IF fetch_failed(o)
           THEN /\ crawled' = <<>>
                /\ to_visit' = <<>>
                /\ pc' = "crawl_ret"
           ELSE /\ crawled' = <<[url |-> HomeUrl(start_url), soup |-> o.page]>>
                /\ IF 1 >= max_pages
                   THEN /\ to_visit' = <<>>
                        /\ pc' = "crawl_ret"
                   ELSE /\ to_visit' \in Perms(discover_header_links(base_origin(start_url), o.page))
                        /\ pc' = "crawl_loop"
    /\ visited' = {}
    /\ UNCHANGED <<exc, start_url, max_pages, searchVars, pipeVars, procVars>>
    /\ UNCHANGED clsVars
    /\ UNCHANGED extVars

\* a loop that puts a URL whose fetch failed back on the frontier
CrawlVisit_Retries(Pages) ==
    /\ pc = "crawl_loop"
    /\ to_visit # <<>> /\ Len(crawled) < max_pages
    /\ LET url == Head(to_visit) IN
        IF url \in visited
        THEN /\ to_visit' = Tail(to_visit)
             /\ UNCHANGED <<visited, fetchLog, crawled>>
        ELSE \E o \in Outcomes(Pages) :
                  /\ fetchLog' = Append(fetchLog, [url |-> url, ok |-> ~fetch_failed(o)])
                  /\ IF fetch_failed(o)
                     THEN /\ crawled' = crawled
                          /\ visited' = visited
                          /\ to_visit' = Append(Tail(to_visit), url)
                     ELSE /\ crawled' = Append(crawled, [url |-> url, soup |-> o.page])
                          /\ visited' = visited \cup {url}
                          /\ to_visit' = Tail(to_visit)
    /\ UNCHANGED <<pc, exc, start_url, max_pages, searchVars, pipeVars, procVars>>
    /\ UNCHANGED clsVars
    /\ UNCHANGED extVars

\* a loop that gives up at the first failed fetch (break for continue)
CrawlVisit_StopsOnFailure(Pages) ==
    /\ pc = "crawl_loop"
    /\ to_visit # <<>> /\ Len(crawled) < max_pages
    /\ LET url == Head(to_visit) IN
        IF url \in visited
        THEN /\ to_visit' = Tail(to_visit)
             /\ UNCHANGED <<visited, fetchLog, crawled>>
        ELSE /\ visited' = visited \cup {url}
             /\ \E o \in Outcomes(Pages) :
                  /\ fetchLog' = Append(fetchLog, [url |-> url, ok |-> ~fetch_failed(o)])
                  /\ crawled' = IF fetch_failed(o) THEN crawled
                                ELSE Append(crawled, [url |-> url, soup |-> o.page])
                  /\ to_visit' = IF fetch_failed(o) THEN <<>> ELSE Tail(to_visit)
    /\ UNCHANGED <<pc, exc, start_url, max_pages, searchVars, pipeVars, procVars>>
    /\ UNCHANGED clsVars
    /\ UNCHANGED extVars

\* One iteration of `while to_visit and len(results) < max_pages`
CrawlVisit(Pages) ==
    /\ pc = "crawl_loop"
    /\ to_visit # <<>> /\ Len(crawled) < max_pages
    /\ LET url == Head(to_visit) IN
        /\ to_visit' = Tail(to_visit)
        /\ IF url \in visited
           THEN UNCHANGED <<visited, fetchLog, crawled>>
           ELSE /\ visited' = visited \cup {url}
                /\ \E o \in Outcomes(Pages) :
                     /\ fetchLog' = Append(fetchLog, [url |-> url, ok |-> ~fetch_failed(o)])
                     /\ crawled' = IF fetch_failed(o) THEN crawled
                                   ELSE Append(crawled, [url |-> url, soup |-> o.page])
    /\ UNCHANGED <<pc, exc, start_url, max_pages, searchVars, pipeVars, procVars>>
    /\ UNCHANGED clsVars
    /\ UNCHANGED extVars

\* The loop condition is false: return results
CrawlReturn ==
    /\ pc = "crawl_loop"
    /\ ~(to_visit # <<>> /\ Len(crawled) < max_pages)
    /\ pc' = "crawl_ret"
    /\ UNCHANGED <<exc, crawlVars, searchVars, pipeVars, procVars>>
    /\ UNCHANGED clsVars
    /\ UNCHANGED extVars

\* ------------------------------------------------------ search providers
\* str(n) for n >= 0: the decimal digits, most significant first
RECURSIVE Str(_)
Str(n) == IF n < 10 THEN <<n>> ELSE Str(n \div 10) \o <<n % 10>>

\* int(s) for a digit sequence
RECURSIVE IntOf(_)
IntOf(s) ==
    IF s = <<>> THEN 0
    ELSE 10 * IntOf(SubSeq(s, 1, Len(s) - 1)) + s[Len(s)]

\* An item of a provider's JSON answer: it may lack "link"
Item(url) == [has_link |-> TRUE, link |-> url]
ItemNoLink == [has_link |-> FALSE, link |-> RelHref("")]

SearchItems == {Item(LinkAcme), Item(LinkAcmeUpper), Item(LinkJoes), Item(LinkIP), ItemNoLink}

\* sequences over S of length at most n
SeqsUpTo(S, n) == UNION {[1..k -> S] : k \in 0..n}

SearchStatuses == {200, 400, 403, 500}

\* What the search API does with one request
SearchOutcomes(Items, n) ==
    [kind : {"exc"}, err : Exceptions, status : {0}, items : {<<>>}]
    \cup [kind : {"resp"}, err : {"none"}, status : SearchStatuses \ {200}, items : {<<>>}]
    \cup [kind : {"resp"}, err : {"none"}, status : {200}, items : SeqsUpTo(Items, n)]

SearchFailed(o) == o.kind = "exc" \/ o.status >= 400

\* the loop over items: those without a link are skipped
RECURSIVE ItemsToResults(_)
ItemsToResults(items) ==
    IF items = <<>> THEN <<>>
    ELSE (IF Head(items).has_link THEN <<[link |-> Head(items).link]>> ELSE <<>>)
         \o ItemsToResults(Tail(items))

Returned(list) == [raised |-> FALSE, err |-> "none", list |-> list]
Raised(err)    == [raised |-> TRUE, err |-> err, list |-> <<>>]

\* GoogleCSEProvider.search: 400 and 403 return [], raise_for_status and the
\* transport errors are RequestExceptions, caught and turned into []
GoogleCSEProvider_search(o) ==
    IF o.kind = "exc" THEN Returned(<<>>)
    ELSE IF o.status = 400 THEN Returned(<<>>)
    ELSE IF o.status = 403 THEN Returned(<<>>)
    ELSE IF o.status >= 400 THEN Returned(<<>>)
    ELSE Returned(ItemsToResults(o.items))

\* SerpApiProvider.search: no try/except; requests.get and raise_for_status raise
SerpApiProvider_search(o) ==
    IF o.kind = "exc" THEN Raised(o.err)
    ELSE IF o.status >= 400 THEN Raised("HTTPError")
    ELSE Returned(ItemsToResults(o.items))

provider_search(prov, o) ==
    IF prov = "cse" THEN GoogleCSEProvider_search(o) ELSE SerpApiProvider_search(o)

\* rank_counter never reset: it keeps counting across pages
RankedPageNoReset(p, page_results) ==
    [k \in 1..Len(page_results) |->
        [link |-> page_results[k].link, rank |-> Str((p - 1) * 10 + Len(raw) + k)]]

\* the inner loop of collect_results_for_pages: rank_counter starts at 1 on
\* every page (it is reset after the loop)
RankedPage(p, page_results) ==
    [k \in 1..Len(page_results) |->
        [link |-> page_results[k].link, rank |-> Str((p - 1) * 10 + k)]]

\* an aggregator that takes an empty page for the end of the results
SearchPage_StopsOnEmpty(Items, cap) ==
    /\ pc = "collect"
    /\ page <= end_page
    /\ \E o \in SearchOutcomes(Items, cap - Len(raw)) :
        LET start_index == (page - 1) * 10 + 1
            r == provider_search(provider, o)
        IN  /\ searchLog' = Append(searchLog,
                    [page |-> page, start_index |-> start_index,
                     failed |-> SearchFailed(o), n |-> Len(r.list)])
            /\ IF r.raised
               THEN /\ pc' = "raised"
                    /\ exc' = r.err
                    /\ UNCHANGED <<raw, page>>
               ELSE /\ raw' = raw \o RankedPage(page, r.list)
                    /\ page' = IF r.list = <<>> THEN end_page + 1 ELSE page + 1
                    /\ UNCHANGED <<pc, exc>>
    /\ UNCHANGED <<provider, start_page, end_page, crawlVars, pipeVars, procVars>>
    /\ UNCHANGED clsVars
    /\ UNCHANGED extVars

\* One iteration of `for page in range(start_page, end_page + 1)`
SearchPage(Items, cap) ==
    /\ pc = "collect"
    /\ page <= end_page
    /\ \E o \in SearchOutcomes(Items, cap - Len(raw)) :
        LET start_index == (page - 1) * 10 + 1
            r == provider_search(provider, o)
        IN  /\ searchLog' = Append(searchLog,
                    [page |-> page, start_index |-> start_index,
                     failed |-> SearchFailed(o), n |-> Len(r.list)])
            /\ IF r.raised
               THEN /\ pc' = "raised"
                    /\ exc' = r.err
                    /\ UNCHANGED <<raw, page>>
               ELSE /\ raw' = raw \o RankedPage(page, r.list)
                    /\ page' = page + 1
                    /\ UNCHANGED <<pc, exc>>
    /\ UNCHANGED <<provider, start_page, end_page, crawlVars, pipeVars, procVars>>
    /\ UNCHANGED clsVars
    /\ UNCHANGED extVars

\* The range is exhausted: return results
CollectReturn ==
    /\ pc = "collect"
    /\ page > end_page
    /\ pc' = "collect_ret"
    /\ UNCHANGED <<exc, crawlVars, searchVars, pipeVars, procVars>>
    /\ UNCHANGED clsVars
    /\ UNCHANGED extVars

\* ------------------------------------------------------- dedupe_by_domain
RECURSIVE DedupeLoop(_, _, _)
DedupeLoop(rs, seen, deduped) ==
    IF rs = <<>> THEN deduped
    ELSE LET domain == normalize_domain(Head(rs).link) IN
         IF domain = NoDomain \/ domain \in seen
         THEN DedupeLoop(Tail(rs), seen, deduped)
         ELSE DedupeLoop(Tail(rs), seen \cup {domain}, Append(deduped, Head(rs)))

\* `seen` never filled: every entry with a domain is kept
dedupe_by_domain_NoSeen(rs) ==
    SelectSeq(rs, LAMBDA r : normalize_domain(r.link) # NoDomain)

dedupe_by_domain(rs) == DedupeLoop(rs, {}, <<>>)

\* results[:m] for m >= 0
SliceTo(s, m) == SubSeq(s, 1, IF m < Len(s) THEN m ELSE Len(s))

\* the deduplication step left out
Dedupe_Skipped ==
    /\ pc = "collect_ret"
    /\ results' = raw
    /\ pc' = "deduped"
    /\ UNCHANGED <<exc, crawlVars, searchVars, pipeCfg, pipeLoop, procVars>>
    /\ UNCHANGED clsVars
    /\ UNCHANGED extVars

\* run_pipeline: results = dedupe_by_domain(results)
Dedupe ==
    /\ pc = "collect_ret"
    /\ results' = dedupe_by_domain(raw)
    /\ pc' = "deduped"
    /\ UNCHANGED <<exc, crawlVars, searchVars, pipeCfg, pipeLoop, procVars>>
    /\ UNCHANGED clsVars
    /\ UNCHANGED extVars

\* the truncation left out
Truncate_Skipped ==
    /\ pc = "deduped"
    /\ results' = results
    /\ pc' = "truncated"
    /\ UNCHANGED <<exc, crawlVars, searchVars, pipeCfg, pipeLoop, procVars>>
    /\ UNCHANGED clsVars
    /\ UNCHANGED extVars

\* run_pipeline: results = results[:max_per_city]
Truncate ==
    /\ pc = "deduped"
    /\ results' = SliceTo(results, max_per_city)
    /\ pc' = "truncated"
    /\ UNCHANGED <<exc, crawlVars, searchVars, pipeCfg, pipeLoop, procVars>>
    /\ UNCHANGED clsVars
    /\ UNCHANGED extVars

\* ------------------------------------------------------------- extractors
\* E-mail addresses are token sequences: local part, "@", domain labels
EInfo  == <<"info", "@", "acme", "com">>
ESales == <<"Sales", "@", "Blocked", "com">>
ELlm   == <<"office", "@", "acme", "com">>
EObfuscated == <<"hello", " ", "[at]", " ", "acme", "com">>

\* the result None of clean_email_match
NoEmail == <<>>

\* number of characters of a token
TokLen(t) ==
    CASE t \in {"@", " ", "a", "b"} -> 1
      [] t = "[at]" -> 4
      [] t \in {"com"} -> 3
      [] t \in {"info", "acme", "test", "Test"} -> 4
      [] t = "x100" -> 100
      [] t \in {"hello", "sales", "Sales", "email"} -> 5
      [] t \in {"office", "domain"} -> 6
      [] OTHER -> 7

\* len() of an address: its tokens, and the dots between the domain labels
RECURSIVE SumLen(_)
SumLen(s) == IF s = <<>> THEN 0 ELSE TokLen(Head(s)) + SumLen(Tail(s))

AtIndex(e) == IF \E i \in 1..Len(e) : e[i] = "@"
              THEN CHOOSE i \in 1..Len(e) : e[i] = "@" /\ \A j \in (i + 1)..Len(e) : e[j] # "@"
              ELSE 0

\* email.split('@')[-1]
DomainPart(e) == SubSeq(e, AtIndex(e) + 1, Len(e))

EmailLen(e) == SumLen(e) + (IF Len(DomainPart(e)) > 1 THEN Len(DomainPart(e)) - 1 ELSE 0)

false_positives ==
    {<<"example", "@", "example", "com">>, <<"test", "@", "test", "com">>,
     <<"email", "@", "domain", "com">>}

MinEmailLen == 5
MaxEmailLen == 100

\* clean_email_match: [at]/(at) become @, white space is removed, then the
\* candidate is rejected without "@", without a dot in the domain, when
\* shorter than 5 or longer than 100, or when a known placeholder
clean_email_match(m) ==
    LET deobf == [i \in 1..Len(m) |-> IF m[i] \in {"[at]", "(at)"} THEN "@" ELSE m[i]]
        email == SelectSeq(deobf, LAMBDA t : t # " ")
    IN  IF email = <<>> THEN NoEmail
        ELSE IF AtIndex(email) = 0 \/ Len(DomainPart(email)) < 2 THEN NoEmail
        ELSE IF EmailLen(email) < MinEmailLen \/ EmailLen(email) > MaxEmailLen THEN NoEmail
        ELSE IF Lower(email) \in false_positives THEN NoEmail
        ELSE email

\* What the LLM call does: it fails (no API key, no page content to send, a
\* transport error, a reply that is no JSON, JSON that is no object), or
\* answers with a list of addresses
LlmFailures == {"no_api_key", "no_content", "transport", "non_json", "not_an_object"}

LlmReply(emails) == [ok |-> TRUE, why |-> "none", emails |-> emails]

LlmOutcomes ==
    {[ok |-> FALSE, why |-> f, emails |-> {}] : f \in LlmFailures} \cup {LlmReply({ELlm})}

extract_emails_with_llm(llm) ==
    IF ~llm.ok THEN {}
    ELSE {Lower(clean_email_match(e)) : e \in {x \in llm.emails : clean_email_match(x) # NoEmail}}

\* extract_emails: mailto targets (lower-cased, not cleaned), then the pattern
\* matches in priority sections, text and markup (cleaned), then the LLM
\* fallback when nothing was found
deterministic_passes(soup) ==
    LET from_mailto  == {Lower(a) : a \in {x \in soup.mailto : x # <<>>}}
        from_matches == {Lower(clean_email_match(m)) :
                            m \in {x \in soup.matches : clean_email_match(x) # NoEmail}}
    IN  from_mailto \cup from_matches

extract_emails(soup, llm) ==
    LET emails == deterministic_passes(soup)
    IN  IF emails = {} THEN extract_emails_with_llm(llm) ELSE emails

\* Phone matches are character sequences
PhoneA == <<"5", "5", "5", "-", "0", "1", "0", "0">>
PhoneB == <<"+", "1", "5", "5", "5", "0", "1", "9", "9">>
PhoneC == <<"5", "5", "5", "-", "0", "1", "0", "1">>
PhoneD == <<"5", "5", "5", " ", "0", "1", "0", "2">>

MinPhoneLen == 7

\* extract_phones: strip what is neither a digit nor "+", keep 7 and more
extract_phones(soup) ==
    LET cleaned(m) == SelectSeq(m, LAMBDA c : c \notin {"-", " ", ".", "(", ")"})
    IN  {cleaned(m) : m \in {x \in soup.phones : Len(cleaned(x)) >= MinPhoneLen}}

\* A JSON-LD script block: unparseable, a node that is no object, or an object
\* with an @type and a name
LdMalformed == [kind |-> "malformed", type |-> "", name |-> ""]
LdNonDict   == [kind |-> "nondict", type |-> "", name |-> ""]
LdNode(type, name) == [kind |-> "node", type |-> type, name |-> name]

BusinessTypes == {"localbusiness", "automotivebusiness", "organization"}

\* extract_business_info_from_jsonld: the first name of a business-typed
\* node; an unparseable block is skipped; obj.get on a node that is no object
\* raises AttributeError, which nothing catches
RECURSIVE JsonLdLoop(_, _)
JsonLdLoop(blocks, name) ==
    IF blocks = <<>> THEN [raised |-> FALSE, name |-> name]
    ELSE LET b == Head(blocks) IN
         IF b.kind = "malformed" THEN JsonLdLoop(Tail(blocks), name)
         ELSE IF b.kind = "nondict" THEN [raised |-> TRUE, name |-> name]
         ELSE IF b.type \in BusinessTypes /\ name = "" /\ b.name # ""
              THEN JsonLdLoop(Tail(blocks), b.name)
              ELSE JsonLdLoop(Tail(blocks), name)

extract_business_info_from_jsonld(soup) == JsonLdLoop(soup.jsonld, "")

\* ------------------------------------------------------------------ filters
\* text.lower(): the words and phrases of the text, lower-cased
LowerText(text) == {LowerTok(w) : w \in text}

NO_MARKETING_PHRASES ==
    {"no marketing", "do not contact", "do not email", "no solicitations",
     "no cold email", "no unsolicited"}

page_disallows_marketing(page_text) ==
    \E phrase \in NO_MARKETING_PHRASES : phrase \in LowerText(page_text)

\* A campaign profile: positive and negative keywords and the least positive score
AutomotiveProfile ==
    [positive |-> {"car", "engine", "mechanic", "garage"},
     negative |-> {"bank", "hotel", "salon"},
     min_positive |-> 2]

\* the profile of is_beauty_salon_business
BeautyMinPositive == 2

BeautyProfile ==
    [positive |->
        {"beauty salon", "beauty", "salon", "spa", "hair salon", "hairdresser", "stylist",
         "hair cut", "haircut", "hair style", "hair color", "highlights", "lowlights",
         "blowdry", "blow dry", "manicure", "pedicure", "nail", "nails", "facial",
         "massage", "waxing", "eyebrow", "eyelash", "makeup", "cosmetics",
         "beauty treatment", "appointment", "booking", "book now", "walk-ins",
         "price list", "services menu", "treatment menu", "beautician",
         "cosmetologist", "esthetician"},
     negative |->
        {"automotive", "auto", "car", "mechanic", "garage", "restaurant", "plumb",
         "electric", "roof", "accounting", "law", "solicitor", "estate agent", "builder",
         "hvac", "landscap", "medical", "doctor", "dentist", "hospital", "clinic",
         "pharmacy"},
     min_positive |-> BeautyMinPositive]

\* <<k, w>>: the keyword k occurs inside the word or phrase w
SubstringOf ==
    {<<"salon", "hair salon">>, <<"nail", "nails">>, <<"car", "carpet">>,
     <<"spa", "space">>}

\* a keyword test that wants the keyword to be the whole text
present_WholeText(keyword, text_lower) == text_lower = {keyword}

\* `keyword in text_lower`
present(keyword, text_lower) ==
    \E w \in text_lower : w = keyword \/ <<keyword, w>> \in SubstringOf

\* sum(1 for keyword in keywords if keyword in text_lower)
RECURSIVE score(_, _)
score(keywords, text_lower) ==
    IF keywords = {} THEN 0
    ELSE LET keyword == CHOOSE k \in keywords : TRUE
         IN  (IF present(keyword, text_lower) THEN 1 ELSE 0)
             + score(keywords \ {keyword}, text_lower)

\* a classifier that accepts a positive score equal to the negative one
is_business_NotLess(page_text, profile) ==
    LET text_lower == LowerText(page_text)
        pos_score == score(profile.positive, text_lower)
        neg_score == score(profile.negative, text_lower)
    IN  pos_score >= profile.min_positive /\ pos_score >= neg_score

\* the keyword classifier: enough distinct positive keywords, and more of
\* them than negative ones
is_business(page_text, profile) ==
    LET text_lower == LowerText(page_text)
        pos_score == score(profile.positive, text_lower)
        neg_score == score(profile.negative, text_lower)
    IN  pos_score >= profile.min_positive /\ pos_score > neg_score

is_beauty_salon_business(page_text) == is_business(page_text, BeautyProfile)

is_automotive_business(page_text) == is_business(page_text, AutomotiveProfile)

\* str.strip() of a line
RECURSIVE LStrip(_)
LStrip(s) == IF s # <<>> /\ Head(s) = " " THEN LStrip(Tail(s)) ELSE s

RECURSIVE RStrip(_)
RStrip(s) == IF s # <<>> /\ s[Len(s)] = " " THEN RStrip(SubSeq(s, 1, Len(s) - 1)) ELSE s

strip(s) == RStrip(LStrip(s))

\* suppression_list.txt: absent or empty; a comment, a blank line and a domain
\* in capitals between blanks; a full address in capitals
SuppressionFiles ==
    {<<>>,
     <<<<"#", " ", "acme", "com">>, <<" ">>, <<" ", "Blocked", "COM", " ">>>>,
     <<<<"Sales", "@", "Blocked", "com">>>>}

\* load_suppression_list: the stripped, lower-cased lines that are neither
\* empty nor comments (the empty set when the file does not exist)
load_suppression_list(lines) ==
    {Lower(strip(lines[i])) :
        i \in {j \in 1..Len(lines) : strip(lines[j]) # <<>> /\ Head(strip(lines[j])) # "#"}}

\* a suppression test that knows whole addresses only
is_suppressed_AddressOnly(value, supp) ==
    LET val == Lower(value)
    IN  val \in supp

\* is_suppressed: the lower-cased value, or its part after "@", is listed
is_suppressed(value, supp) ==
    LET val == Lower(value)
        domain == IF AtIndex(val) # 0 THEN DomainPart(val) ELSE val
    IN  val \in supp \/ domain \in supp

\* validate_email_for_outreach(address, strict_mx_check=False): the syntax
\* check of email_validator: a local part, "@", a dotted domain
validate_email_for_outreach(address) ==
    /\ AtIndex(address) > 1
    /\ Len(DomainPart(address)) >= 2
    /\ \A i \in 1..Len(address) : address[i] # " "

EXCLUDED_DOMAINS ==
    {<<"indeed", "com">>, <<"facebook", "com">>, <<"yelp", "com">>,
     <<"wikipedia", "org">>, <<"gov">>, <<"edu">>, <<"wix", "com">>}

non_automotive_keywords == {<<"bank">>, <<"hotel">>, <<"plumb">>, <<"hvac">>, <<"roof">>}

is_excluded_domain(url) ==
    LET domain == normalize_domain(url) IN
    IF domain = NoDomain THEN FALSE
    ELSE IF \E excluded \in EXCLUDED_DOMAINS : Contains(domain, excluded) THEN TRUE
    ELSE IF \E keyword \in non_automotive_keywords : Contains(domain, keyword) THEN TRUE
    ELSE FALSE

\* ------------------------------------------------------------------ sorted
\* the tokens in code-point order
OrderedTokens ==
    <<" ", "+", "-", "0", "1", "2", "3", "4", "5", "6", "7", "8", "9", "; ", "@",
      "Acme Auto", "Joes Garage", "acme", "blocked", "com", "hello", "info",
      "office", "sales">>

Ord(t) == CHOOSE i \in 1..Len(OrderedTokens) : OrderedTokens[i] = t

\* a < b for strings, token by token
RECURSIVE Less(_, _)
Less(a, b) ==
    IF b = <<>> THEN FALSE
    ELSE IF a = <<>> THEN TRUE
    ELSE IF Head(a) = Head(b) THEN Less(Tail(a), Tail(b))
    ELSE Ord(Head(a)) < Ord(Head(b))

\* sorted(S, reverse=True)
RECURSIVE sorted_Reversed(_)
sorted_Reversed(S) ==
    IF S = {} THEN <<>>
    ELSE LET greatest == CHOOSE x \in S : \A y \in S \ {x} : Less(y, x)
         IN  <<greatest>> \o sorted_Reversed(S \ {greatest})

\* sorted(S)
RECURSIVE sorted(_)
sorted(S) ==
    IF S = {} THEN <<>>
    ELSE LET least == CHOOSE x \in S : \A y \in S \ {x} : Less(x, y)
         IN  <<least>> \o sorted(S \ {least})

\* "; ".join(parts): the parts with the separator "; " between them
RECURSIVE Join(_)
Join(parts) ==
    IF parts = <<>> THEN <<>>
    ELSE IF Len(parts) = 1 THEN parts[1]
    ELSE parts[1] \o <<"; ">> \o Join(Tail(parts))

\* ------------------------------------------------------------ process_result
CrawlBudget == 5
PhoneCap == 3

\* the pre-filter applied only after the crawl was started
ProcStart_CrawlFirst ==
    /\ pc = "process_result"
    /\ all_emails' = {}
    /\ all_phones' = {}
    /\ business_names' = {}
    /\ page_urls' = <<>>
    /\ automotive_business' = FALSE
    /\ pidx' = 1
    /\ start_url' = result.link
    /\ max_pages' = CrawlBudget
    /\ to_visit' = <<>>
    /\ visited' = {}
    /\ crawled' = <<>>
    /\ pc' = "crawl_home"
    /\ UNCHANGED <<fetchLog, rows_ret, exc, service, city, result, searchVars, pipeVars>>
    /\ UNCHANGED clsVars
    /\ UNCHANGED extVars

\* link, domain, the pre-filter; when it passes, the accumulators are set up
\* and crawl_site(link, max_pages=5) is called
ProcStart ==
    /\ pc = "process_result"
    /\ IF is_excluded_domain(result.link)
       THEN /\ rows_ret' = <<>>
            /\ pc' = "pr_ret"
            /\ UNCHANGED <<crawlVars, all_emails, all_phones, business_names,
                           page_urls, automotive_business, pidx>>
       ELSE /\ all_emails' = {}
            /\ all_phones' = {}
            /\ business_names' = {}
            /\ page_urls' = <<>>
            /\ automotive_business' = FALSE
            /\ pidx' = 1
            /\ start_url' = result.link
            /\ max_pages' = CrawlBudget
            /\ to_visit' = <<>>
            /\ visited' = {}
            /\ crawled' = <<>>
            /\ pc' = "crawl_home"
            /\ UNCHANGED <<fetchLog, rows_ret>>
    /\ UNCHANGED <<exc, service, city, result, searchVars, pipeVars>>
    /\ UNCHANGED clsVars
    /\ UNCHANGED extVars

\* the e-mails are collected before the opt-out test skips the page
ProcPage_EmailsBeforeOptOut ==
    /\ pc = "crawl_ret"
    /\ pidx <= Len(crawled)
    /\ LET soup == crawled[pidx].soup IN
       \E llm \in LlmOutcomes :
          /\ all_emails' = all_emails \cup
                {e \in extract_emails(soup, llm) :
                    ~is_suppressed(e, suppression) /\ validate_email_for_outreach(e)}
          /\ pidx' = pidx + 1
          /\ IF page_disallows_marketing(soup.text)
             THEN UNCHANGED <<all_phones, business_names, page_urls, automotive_business>>
             ELSE /\ automotive_business' =
                        (automotive_business \/ is_automotive_business(soup.text))
                  /\ all_phones' = all_phones \cup extract_phones(soup)
                  /\ business_names' = business_names
                  /\ page_urls' = Append(page_urls, crawled[pidx].url)
    /\ UNCHANGED <<pc, exc, crawlVars, searchVars, pipeVars, service, city, result, rows_ret>>
    /\ UNCHANGED clsVars
    /\ UNCHANGED extVars

\* One iteration of `for page_url, soup in crawl_site(...)`
ProcPage ==
    /\ pc = "crawl_ret"
    /\ pidx <= Len(crawled)
    /\ LET page_url == crawled[pidx].url
           soup == crawled[pidx].soup
           page_text == soup.text
       IN  IF page_disallows_marketing(page_text)
           THEN /\ pidx' = pidx + 1
                /\ UNCHANGED <<pc, exc, all_emails, all_phones, business_names,
                               page_urls, automotive_business>>
           ELSE \E llm \in LlmOutcomes :
                LET found == extract_emails(soup, llm)
                    page_emails == {e \in found :
                                       /\ ~is_suppressed(e, suppression)
                                       /\ validate_email_for_outreach(e)}
                    info == extract_business_info_from_jsonld(soup)
                IN  IF info.raised
                    THEN /\ pc' = "raised"
                         /\ exc' = "AttributeError"
                         /\ automotive_business' =
                                (automotive_business \/ is_automotive_business(page_text))
                         /\ all_emails' = all_emails \cup page_emails
                         /\ all_phones' = all_phones \cup extract_phones(soup)
                         /\ UNCHANGED <<business_names, page_urls, pidx>>
                    ELSE /\ automotive_business' =
                                (automotive_business \/ is_automotive_business(page_text))
                         /\ all_emails' = all_emails \cup page_emails
                         /\ all_phones' = all_phones \cup extract_phones(soup)
                         /\ business_names' =
                                (IF info.name # "" THEN business_names \cup {<<info.name>>}
                                 ELSE business_names)
                         /\ page_urls' = Append(page_urls, page_url)
                         /\ pidx' = pidx + 1
                         /\ UNCHANGED <<pc, exc>>
    /\ UNCHANGED <<crawlVars, searchVars, pipeVars, service, city, result, rows_ret>>
    /\ UNCHANGED clsVars
    /\ UNCHANGED extVars

\* a row is built only when an e-mail was found
ProcFinish_NeedsEmail ==
    /\ pc = "crawl_ret"
    /\ pidx > Len(crawled)
    /\ rows_ret' =
         IF ~automotive_business \/ all_emails = {} THEN <<>>
         ELSE <<[service |-> service, city |-> city, rank |-> result.rank,
                 domain |-> normalize_domain(result.link),
                 page_url_found |-> IF page_urls # <<>> THEN page_urls[1] ELSE result.link,
                 business_name |-> Join(sorted(business_names)),
                 email |-> Join(sorted(all_emails)),
                 phone |-> Join(SliceTo(sorted(all_phones), PhoneCap))]>>
    /\ pc' = "pr_ret"
    /\ UNCHANGED <<exc, crawlVars, searchVars, pipeVars, service, city, result, all_emails, all_phones,
                   business_names, page_urls, automotive_business, pidx>>
    /\ UNCHANGED clsVars
    /\ UNCHANGED extVars

\* the record names the last page processed instead of the first
ProcFinish_LastUrl ==
    /\ pc = "crawl_ret"
    /\ pidx > Len(crawled)
    /\ rows_ret' =
         IF ~automotive_business THEN <<>>
         ELSE IF all_emails = {} /\ all_phones = {} /\ business_names = {} THEN <<>>
         ELSE <<[service |-> service, city |-> city, rank |-> result.rank,
                 domain |-> normalize_domain(result.link),
                 page_url_found |-> IF page_urls # <<>> THEN page_urls[Len(page_urls)] ELSE result.link,
                 business_name |-> Join(sorted(business_names)),
                 email |-> Join(sorted(all_emails)),
                 phone |-> Join(SliceTo(sorted(all_phones), PhoneCap))]>>
    /\ pc' = "pr_ret"
    /\ UNCHANGED <<exc, crawlVars, searchVars, pipeVars, service, city, result, all_emails, all_phones,
                   business_names, page_urls, automotive_business, pidx>>
    /\ UNCHANGED clsVars
    /\ UNCHANGED extVars

\* After the loop: no row unless a page was classified as the vertical and
\* some signal was found; else the one combined row
ProcFinish ==
    /\ pc = "crawl_ret"
    /\ pidx > Len(crawled)
    /\ rows_ret' =
         IF ~automotive_business THEN <<>>
         ELSE IF all_emails = {} /\ all_phones = {} /\ business_names = {} THEN <<>>
         ELSE <<[service |-> service, city |-> city, rank |-> result.rank,
                 domain |-> normalize_domain(result.link),
                 page_url_found |-> IF page_urls # <<>> THEN page_urls[1] ELSE result.link,
                 business_name |-> Join(sorted(business_names)),
                 email |-> Join(sorted(all_emails)),
                 phone |-> Join(SliceTo(sorted(all_phones), PhoneCap))]>>
    /\ pc' = "pr_ret"
    /\ UNCHANGED <<exc, crawlVars, searchVars, pipeVars, service, city, result, all_emails, all_phones,
                   business_names, page_urls, automotive_business, pidx>>
    /\ UNCHANGED clsVars
    /\ UNCHANGED extVars

\* ------------------------------------------------------ main, run_pipeline
\* SERVICES of main.py
Services == <<"car mechanic">>

\* An entry of the output file: the header, or the row of a batch (the
\* iteration of the city/service loops that wrote it)
EmptyRow ==
    [service |-> "", city |-> "", rank |-> <<>>, domain |-> <<>>,
     page_url_found |-> RelHref(""), business_name |-> <<>>, email |-> <<>>,
     phone |-> <<>>]

HeaderEntry == [kind |-> "header", batch |-> <<0, 0>>, row |-> EmptyRow]
RowEntry(c, sv, row) == [kind |-> "row", batch |-> <<c, sv>>, row |-> row]

\* a provider that reads its credentials only when it first searches
GetProvider_Unchecked ==
    /\ pc = "main"
    /\ pc' = "run_pipeline"
    /\ exc' = exc
    /\ UNCHANGED <<crawlVars, searchVars, pipeVars, procVars>>
    /\ UNCHANGED clsVars
    /\ UNCHANGED extVars

\* main: get_provider raises RuntimeError when a credential is missing
GetProvider ==
    /\ pc = "main"
    /\ IF credentials
       THEN pc' = "run_pipeline" /\ exc' = exc
       ELSE pc' = "crashed" /\ exc' = "RuntimeError"
    /\ UNCHANGED <<crawlVars, searchVars, pipeVars, procVars>>
    /\ UNCHANGED clsVars
    /\ UNCHANGED extVars

\* run_pipeline up to the loops: the file is opened and the header written
OpenSink ==
    /\ pc = "run_pipeline"
    /\ sink' = "open"
    /\ written' = <<HeaderEntry>>
    /\ flushed' = <<>>
    /\ cidx' = 1
    /\ sidx' = 1
    /\ pc' = "pair"
    /\ UNCHANGED <<exc, crawlVars, searchVars, results, pipeCfg, ridx, procVars>>
    /\ UNCHANGED clsVars
    /\ UNCHANGED extVars

\* the next (city, service) pair: collect_results_for_pages is called
PairStart ==
    /\ pc = "pair"
    /\ cidx <= Len(cities)
    /\ page' = start_page
    /\ raw' = <<>>
    /\ searchLog' = <<>>
    /\ ridx' = 1
    /\ pc' = "collect"
    /\ UNCHANGED <<exc, crawlVars, provider, start_page, end_page, results, pipeCfg,
                   cidx, sidx, sink, written, flushed, procVars>>
    /\ UNCHANGED clsVars
    /\ UNCHANGED extVars

\* the next result of the batch: process_result is called
NextResult ==
    /\ pc = "truncated"
    /\ ridx <= Len(results)
    /\ result' = results[ridx]
    /\ service' = Services[sidx]
    /\ city' = cities[cidx]
    /\ fetchLog' = <<>>
    /\ pc' = "process_result"
    /\ UNCHANGED <<exc, start_url, max_pages, to_visit, visited, crawled, searchVars,
                   pipeVars, all_emails, all_phones, business_names, page_urls,
                   automotive_business, pidx, rows_ret>>
    /\ UNCHANGED clsVars
    /\ UNCHANGED extVars

\* the rows process_result returned are written; its locals are gone
WriteRows ==
    /\ pc = "pr_ret"
    /\ written' = written \o [i \in 1..Len(rows_ret) |-> RowEntry(cidx, sidx, rows_ret[i])]
    /\ ridx' = ridx + 1
    /\ pc' = "truncated"
    /\ to_visit' = <<>>
    /\ visited' = {}
    /\ crawled' = <<>>
    /\ all_emails' = {}
    /\ all_phones' = {}
    /\ business_names' = {}
    /\ page_urls' = <<>>
    /\ automotive_business' = FALSE
    /\ pidx' = 1
    /\ rows_ret' = <<>>
    /\ start_url' = LinkAcme
    /\ max_pages' = 0
    /\ fetchLog' = <<>>
    /\ UNCHANGED <<service, city, result>>
    /\ UNCHANGED <<exc, searchVars, results, pipeCfg, cidx, sidx, sink, flushed>>
    /\ UNCHANGED clsVars
    /\ UNCHANGED extVars

\* a run_pipeline whose batch ends without f.flush()
PairFlush_NoFlush ==
    /\ pc = "truncated"
    /\ ridx > Len(results)
    /\ flushed' = flushed
    /\ IF sidx < Len(Services)
       THEN sidx' = sidx + 1 /\ cidx' = cidx
       ELSE sidx' = 1 /\ cidx' = cidx + 1
    /\ pc' = "pair"
    /\ results' = <<>>
    /\ raw' = <<>>
    /\ searchLog' = <<>>
    /\ page' = start_page
    /\ UNCHANGED <<exc, crawlVars, provider, start_page, end_page, pipeCfg, ridx, sink,
                   written, procVars>>
    /\ UNCHANGED clsVars
    /\ UNCHANGED extVars

\* the batch is done: f.flush(), and on to the next pair (the lists of the
\* iteration are gone)
PairFlush ==
    /\ pc = "truncated"
    /\ ridx > Len(results)
    /\ flushed' = written
    /\ IF sidx < Len(Services)
       THEN sidx' = sidx + 1 /\ cidx' = cidx
       ELSE sidx' = 1 /\ cidx' = cidx + 1
    /\ pc' = "pair"
    /\ results' = <<>>
    /\ raw' = <<>>
    /\ searchLog' = <<>>
    /\ page' = start_page
    /\ UNCHANGED <<exc, crawlVars, provider, start_page, end_page, pipeCfg, ridx, sink,
                   written, procVars>>
    /\ UNCHANGED clsVars
    /\ UNCHANGED extVars

\* the loops are over: the with block closes the file
Finish ==
    /\ pc = "pair"
    /\ cidx > Len(cities)
    /\ sink' = "closed"
    /\ flushed' = written
    /\ pc' = "done"
    /\ UNCHANGED <<exc, crawlVars, searchVars, results, pipeCfg, cidx, sidx, ridx,
                   written, procVars>>
    /\ UNCHANGED clsVars
    /\ UNCHANGED extVars

\* an exception leaves the with block: the file is closed, the run aborts
Unwind ==
    /\ pc = "raised"
    /\ sink' = "closed"
    /\ flushed' = written
    /\ pc' = "crashed"
    /\ UNCHANGED <<exc, crawlVars, searchVars, results, pipeCfg, cidx, sidx, ridx,
                   written, procVars>>
    /\ UNCHANGED clsVars
    /\ UNCHANGED extVars

\* ---------------------------------------------- crawl_site on its own
\* crawl_site(start_url, max_pages) for every start URL and every budget
InitCrawl ==
    /\ pc = "crawl_home"
    /\ exc = "none"
    /\ start_url \in {LinkAcme, LinkAcmeUpper, LinkIP}
    /\ max_pages \in 0..MaxPagesBound
    /\ to_visit = <<>>
    /\ visited = {}
    /\ crawled = <<>>
    /\ fetchLog = <<>>
    /\ SearchIdle
    /\ PipeIdle
    /\ ProcIdle
    /\ ClsIdle
    /\ ExtIdle

NextCrawl ==
    \/ CrawlHome(HomePages)
    \/ CrawlVisit({PlainPage})
    \/ CrawlReturn

SpecCrawl == InitCrawl /\ [][NextCrawl]_vars

\* crawl_site runs to its end: every step is a statement of one sequential
\* call, and polite_get returns after the request or its timeout
SpecCrawlLive == InitCrawl /\ [][NextCrawl]_vars /\ WF_vars(NextCrawl)

\* ------------------------- the search half of run_pipeline on its own
\* collect_results_for_pages, dedupe_by_domain and the truncation, for both
\* providers and every page range
InitSearch ==
    /\ pc = "collect"
    /\ exc = "none"
    /\ provider \in {"cse", "serpapi"}
    /\ start_page \in 1..MaxPage
    /\ end_page \in 0..MaxPage
    /\ page = start_page
    /\ raw = <<>>
    /\ searchLog = <<>>
    /\ max_per_city \in 0..MaxPerCityBound
    /\ results = <<>>
    /\ suppression = {}
    /\ LoopIdle
    /\ CrawlIdle
    /\ ProcIdle
    /\ ClsIdle
    /\ ExtIdle

NextSearch ==
    \/ SearchPage(SearchItems, MaxResults)
    \/ CollectReturn
    \/ Dedupe
    \/ Truncate

SpecSearch == InitSearch /\ [][NextSearch]_vars

\* ------------------------------------------------ process_result on its own
\* the words of a page
Texts == {{}, {"car", "engine"}, {"no solicitations"}, {"Car", "engine", "DO NOT CONTACT"}}

\* the contact signals of a page
NoSignals   == [mailto |-> {}, matches |-> {}, phones |-> {}, jsonld |-> <<>>]
AllSignals  == [mailto |-> {EInfo}, matches |-> {EObfuscated}, phones |-> {PhoneA, PhoneC},
                jsonld |-> <<LdMalformed, LdNode("localbusiness", "Acme Auto")>>]
SomeSignals == [mailto |-> {ESales}, matches |-> {}, phones |-> {PhoneB, PhoneD},
                jsonld |-> <<LdNode("website", "Acme")>>]

Bodies ==
    {Body(t, g.mailto, g.matches, g.phones, g.jsonld) :
        t \in Texts, g \in {NoSignals, AllSignals, SomeSignals}}
    \cup {Body({"car", "engine"}, {}, {}, {PhoneA}, <<LdNonDict>>)}

ProcHomePages == {Page(A, b) : A \in {{}, {AContact}, {AContact, AHelp}}, b \in Bodies}
ProcSubPages  == {Page({}, b) : b \in Bodies}

InitProc ==
    /\ pc = "process_result"
    /\ exc = "none"
    /\ result \in {[link |-> l, rank |-> <<1>>] : l \in {LinkAcme, LinkYelp, LinkRoof, LinkIP}}
    /\ suppression \in {load_suppression_list(f) : f \in SuppressionFiles}
    /\ max_per_city = 0
    /\ results = <<>>
    /\ LoopIdle
    /\ service = "car mechanic"
    /\ city = "Joliet"
    /\ all_emails = {}
    /\ all_phones = {}
    /\ business_names = {}
    /\ page_urls = <<>>
    /\ automotive_business = FALSE
    /\ pidx = 1
    /\ rows_ret = <<>>
    /\ CrawlIdle
    /\ SearchIdle
    /\ ClsIdle
    /\ ExtIdle

NextProc ==
    \/ ProcStart
    \/ CrawlHome(ProcHomePages)
    \/ CrawlVisit(ProcSubPages)
    \/ CrawlReturn
    \/ ProcPage
    \/ ProcFinish

SpecProc == InitProc /\ [][NextProc]_vars

\* ------------------------------------------------------- the whole program
\* what the search engine and the sites serve in a full run
PipeItems == {Item(LinkAcme), Item(LinkAcmeUpper), Item(LinkJoes), Item(LinkYelp)}

LeadBody   == Body({"car", "engine"}, {EInfo}, {}, {PhoneA}, <<>>)
OptOutBody == Body({"car", "engine", "no solicitations"}, {ESales}, {}, {PhoneB}, <<>>)

PipeHomePages == {Page({}, LeadBody), Page({AContact}, LeadBody), Page({}, PlainBody)}
PipeSubPages  == {Page({}, OptOutBody), Page({}, Body({}, {}, {}, {}, <<LdNonDict>>))}

Init ==
    /\ pc = "main"
    /\ exc = "none"
    /\ provider \in {"cse", "serpapi"}
    /\ credentials \in BOOLEAN
    /\ start_page = 1
    /\ end_page = 1
    /\ page = 1
    /\ raw = <<>>
    /\ searchLog = <<>>
    /\ max_per_city \in 1..MaxPerCityBound
    /\ suppression = load_suppression_list(<<<<" ", "Blocked", "COM", " ">>>>)
    /\ cities \in {<<"Joliet", "Pasadena">>, <<"Pasadena", "Pasadena">>}
    /\ results = <<>>
    /\ cidx = 1
    /\ sidx = 1
    /\ ridx = 1
    /\ sink = "unopened"
    /\ written = <<>>
    /\ flushed = <<>>
    /\ CrawlIdle
    /\ ProcIdle
    /\ ClsIdle
    /\ ExtIdle

Next ==
    \/ GetProvider
    \/ OpenSink
    \/ PairStart
    \/ SearchPage(PipeItems, PipeMaxResults)
    \/ CollectReturn
    \/ Dedupe
    \/ Truncate
    \/ NextResult
    \/ ProcStart
    \/ CrawlHome(PipeHomePages)
    \/ CrawlVisit(PipeSubPages)
    \/ CrawlReturn
    \/ ProcPage
    \/ ProcFinish
    \/ WriteRows
    \/ PairFlush
    \/ Finish
    \/ Unwind

Spec == Init /\ [][Next]_vars

\* -------------------------------------------- extract_emails on its own
\* a placeholder address, an address of 3 characters, one of 109
ETest  == <<"Test", "@", "test", "com">>
EShort == <<"a", "@", "b">>
ELong  == <<"x100", "@", "acme", "com">>

MailtoCandidates == {EInfo, ETest, EShort, ELong}
MatchCandidates  == {EObfuscated, ETest, ELong}
LlmReplies ==
    {[ok |-> FALSE, why |-> f, emails |-> {}] : f \in LlmFailures}
    \cup {LlmReply(E) : E \in SUBSET {ELlm, ETest}}

\* an extract_emails that asks the LLM on every page
Extract_LlmAlways ==
    /\ pc = "extract"
    /\ ext_called' = TRUE
    /\ ext_ret' = deterministic_passes(ext_soup) \cup extract_emails_with_llm(ext_llm)
    /\ pc' = "extracted"
    /\ UNCHANGED <<exc, crawlVars, searchVars, pipeVars, procVars, clsVars, ext_soup, ext_llm>>

\* one call of extract_emails: the LLM fallback is called when the four
\* passes found nothing
Extract ==
    /\ pc = "extract"
    /\ ext_called' = (deterministic_passes(ext_soup) = {})
    /\ ext_ret' = extract_emails(ext_soup, ext_llm)
    /\ pc' = "extracted"
    /\ UNCHANGED <<exc, crawlVars, searchVars, pipeVars, procVars, clsVars, ext_soup, ext_llm>>

InitExtract ==
    /\ pc = "extract"
    /\ exc = "none"
    /\ ext_soup \in [mailto : SUBSET MailtoCandidates, matches : SUBSET MatchCandidates]
    /\ ext_llm \in LlmReplies
    /\ ext_called = FALSE
    /\ ext_ret = {}
    /\ CrawlIdle
    /\ SearchIdle
    /\ PipeIdle
    /\ ProcIdle
    /\ ClsIdle

NextExtract == Extract

SpecExtract == InitExtract /\ [][NextExtract]_vars

\* ------------------------------------------------ the classifier on its own
\* a page text holds at most MaxTextWords of the words ClsWords
MaxTextWords == 3
\* the profiles tried are those of the code with min_positive in 0..MaxMinPositive
MaxMinPositive == 3

ClsWords == {"salon", "Hair Salon", "nails", "SPA", "car", "roof"}

Profiles ==
    {[BeautyProfile EXCEPT !.min_positive = m] : m \in 0..MaxMinPositive}
    \cup {AutomotiveProfile}

\* one call of the classifier on cls_text
Classify ==
    /\ pc \in {"classify", "appended"}
    /\ cls_pos' = score(cls_profile.positive, LowerText(cls_text))
    /\ cls_neg' = score(cls_profile.negative, LowerText(cls_text))
    /\ cls_ret' = is_business(cls_text, cls_profile)
    /\ pc' = IF pc = "classify" THEN "classified" ELSE "reclassified"
    /\ UNCHANGED <<exc, crawlVars, searchVars, pipeVars, procVars, cls_text, cls_profile>>
    /\ UNCHANGED extVars

\* the text grows by an occurrence of a positive keyword of the profile
AppendKeyword ==
    /\ pc \in {"classified", "reclassified"}
    /\ \E w \in ClsWords :
          /\ \E k \in cls_profile.positive : present(k, {LowerTok(w)})
          /\ Cardinality(cls_text \cup {w}) <= MaxTextWords
          /\ cls_text' = cls_text \cup {w}
    /\ pc' = "appended"
    /\ UNCHANGED <<exc, crawlVars, searchVars, pipeVars, procVars, cls_profile, cls_pos,
                   cls_neg, cls_ret>>
    /\ UNCHANGED extVars

InitClassify ==
    /\ pc = "classify"
    /\ exc = "none"
    /\ cls_text \in {t \in SUBSET ClsWords : Cardinality(t) <= MaxTextWords}
    /\ cls_profile \in Profiles
    /\ cls_pos = 0
    /\ cls_neg = 0
    /\ cls_ret = FALSE
    /\ CrawlIdle
    /\ SearchIdle
    /\ PipeIdle
    /\ ProcIdle
    /\ ExtIdle

NextClassify ==
    \/ Classify
    \/ AppendKeyword

SpecClassify == InitClassify /\ [][NextClassify]_vars

\* ------------------------------------------------------------------ C1
\* C1: for every non-negative max_pages = n, crawl_site returns at most n pages.
C1_AtMostMaxPages ==
    pc = "crawl_ret" => Len(crawled) <= max_pages

\* C1 for n >= 1, the case the budget check of the code covers
C1_AtMostMaxPagesPositive ==
    (pc = "crawl_ret" /\ max_pages >= 1) => Len(crawled) <= max_pages

\* ------------------------------------------------------------------ C2
\* the pages start_page..end_page, in order
PageRange == [i \in 1..(IF end_page >= start_page THEN end_page - start_page + 1 ELSE 0)
                |-> start_page + i - 1]

\* C2: for both providers, a page whose request fails (HTTP error status,
\* timeout, connection failure) yields an empty page result, and
\* collect_results_for_pages never raises: it goes on to the remaining pages.
C2_PageFailuresAbsorbed ==
    /\ pc # "raised"
    /\ \A i \in 1..Len(searchLog) : searchLog[i].failed => searchLog[i].n = 0
    /\ pc = "collect_ret" => [i \in 1..Len(searchLog) |-> searchLog[i].page] = PageRange

\* ------------------------------------------------------------------ C3
\* the number of results the calls before call m returned
RECURSIVE Offset(_)
Offset(m) == IF m <= 1 THEN 0 ELSE Offset(m - 1) + searchLog[m - 1].n

\* C3: in the list collect_results_for_pages returns, the k-th result of page
\* p carries rank (p-1)*10 + k, k restarting at 1 on every page.
C3_RankWithinPage ==
    pc = "collect_ret" =>
        /\ Len(raw) = Offset(Len(searchLog) + 1)
        /\ \A m \in 1..Len(searchLog) : \A k \in 1..searchLog[m].n :
              IntOf(raw[Offset(m) + k].rank) = (searchLog[m].page - 1) * 10 + k

\* page 2 returned 3 items after page 1 returned some: ranks 11, 12, 13
C3_Witness ==
    /\ pc = "collect_ret"
    /\ \E m \in 2..Len(searchLog) :
          /\ searchLog[m].page = 2 /\ searchLog[m].n = 3 /\ Offset(m) = 1
          /\ raw[2].rank = <<1, 1>> /\ raw[3].rank = <<1, 2>> /\ raw[4].rank = <<1, 3>>

\* ------------------------------------------------------------------ C4
\* s is a subsequence of t
RECURSIVE IsSubseq(_, _)
IsSubseq(s, t) ==
    IF s = <<>> THEN TRUE
    ELSE IF t = <<>> THEN FALSE
    ELSE IF Head(s) = Head(t) THEN IsSubseq(Tail(s), Tail(t))
    ELSE IsSubseq(s, Tail(t))

DomainsOf(rs) == {normalize_domain(rs[i].link) : i \in 1..Len(rs)} \ {NoDomain}

FirstWithDomain(rs, d) ==
    rs[CHOOSE i \in 1..Len(rs) :
          /\ normalize_domain(rs[i].link) = d
          /\ \A j \in 1..(i - 1) : normalize_domain(rs[j].link) # d]

\* C4: dedupe_by_domain returns a subsequence of its input holding, for each
\* registrable domain of the input, exactly its first entry, and no entry
\* whose domain cannot be determined.
C4_DedupeKeepsFirst ==
    pc = "deduped" =>
        /\ IsSubseq(results, raw)
        /\ \A i \in 1..Len(results) : normalize_domain(results[i].link) # NoDomain
        /\ \A d \in DomainsOf(raw) :
              /\ Cardinality({i \in 1..Len(results) : normalize_domain(results[i].link) = d}) = 1
              /\ FirstWithDomain(raw, d) \in Range(results)

\* ranks 1 and 3 share a domain, rank 2 has another one, and a later entry has
\* no domain: only ranks 1 and 2 are kept
C4_Witness ==
    /\ pc = "deduped"
    /\ Len(raw) = 4
    /\ raw[1].link # raw[3].link
    /\ normalize_domain(raw[1].link) = normalize_domain(raw[3].link)
    /\ normalize_domain(raw[2].link) \notin {NoDomain, normalize_domain(raw[1].link)}
    /\ normalize_domain(raw[4].link) = NoDomain
    /\ results = <<raw[1], raw[2]>>

\* ------------------------------------------------------------------ C5
RowsOfBatch(b) == {i \in 1..Len(written) : written[i].kind = "row" /\ written[i].batch = b}

\* C5: the rows written for one (city, service) batch hold each registrable
\* domain at most once. A batch is one iteration of the city and service loops;
\* CITIES lists some names twice, and each listing is a batch of its own.
C5_DomainOncePerBatch ==
    \A i \in 1..Len(written) : \A j \in 1..Len(written) :
        (/\ i < j
         /\ written[i].kind = "row" /\ written[j].kind = "row"
         /\ written[i].batch = written[j].batch)
        => written[i].row.domain # written[j].row.domain

\* the search returned two links of one domain, and the batch is through
\* with exactly one row for it
C5_Witness ==
    /\ pc = "truncated"
    /\ ridx > Len(results)
    /\ Len(raw) = 2
    /\ raw[1].link # raw[2].link
    /\ normalize_domain(raw[1].link) = normalize_domain(raw[2].link)
    /\ \E i \in RowsOfBatch(<<cidx, sidx>>) :
          written[i].row.domain = normalize_domain(raw[1].link)

\* ------------------------------------------------------------------ C6
\* the pages of the crawl the loop of process_result has been through
Processed == IF pc \in {"crawl_ret", "pr_ret"} THEN 1..(pidx - 1) ELSE {}

NameOf(soup) == extract_business_info_from_jsonld(soup).name

\* C6: a crawled page with a marketing opt-out phrase still adds its phone
\* numbers and its business name to the domain's accumulated signals.
C6_OptOutPageKeepsPhonesAndName ==
    \A i \in Processed :
        page_disallows_marketing(crawled[i].soup.text) =>
            /\ extract_phones(crawled[i].soup) \subseteq all_phones
            /\ NameOf(crawled[i].soup) # "" => <<NameOf(crawled[i].soup)>> \in business_names

\* ------------------------------------------------------------------ C7
\* C7: processing a page that disallows marketing adds no e-mail to the
\* accumulated set, and the loop goes on to the next crawled page.
C7_OptOutPageAddsNoEmail ==
    [][(/\ pc = "crawl_ret"
        /\ pidx <= Len(crawled)
        /\ page_disallows_marketing(crawled[pidx].soup.text))
       => (all_emails' = all_emails /\ pidx' = pidx + 1 /\ pc' = "crawl_ret")]_vars

\* an opt-out page with a valid mailto: link was passed over, and a later page
\* of the same crawl contributed its address
C7_Witness ==
    /\ pc = "crawl_ret"
    /\ \E i \in Processed : \E j \in Processed :
          /\ i < j
          /\ page_disallows_marketing(crawled[i].soup.text)
          /\ crawled[i].soup.mailto = {EInfo}
          /\ validate_email_for_outreach(EInfo)
          /\ ~page_disallows_marketing(crawled[j].soup.text)
          /\ crawled[j].soup.mailto = {ESales}
          /\ all_emails = {Lower(ESales)}

\* ------------------------------------------------------------------ C8
\* C8: a domain is treated as matching the vertical iff at least one page
\* crawl_site returned qualifies under the classifier, opt-out phrase or not.
C8_MatchesIffSomePageQualifies ==
    (pc = "pr_ret" /\ ~is_excluded_domain(result.link)) =>
        (automotive_business <=>
            \E i \in 1..Len(crawled) : is_automotive_business(crawled[i].soup.text))

\* ------------------------------------------------------------------ C9
\* C9: for a domain that passes the pre-filter, process_result returns exactly
\* one record if a page was classified as the vertical and the accumulated
\* e-mail, phone and name sets are not all empty, and none otherwise.
\* (the pages the loop classified are those it did not skip)
C9_OneRecordIffQualified ==
    (pc = "pr_ret" /\ ~is_excluded_domain(result.link)) =>
        /\ Len(rows_ret) <= 1
        /\ Len(rows_ret) = 1 <=>
              /\ \E i \in 1..Len(crawled) :
                    /\ ~page_disallows_marketing(crawled[i].soup.text)
                    /\ is_automotive_business(crawled[i].soup.text)
              /\ ~(all_emails = {} /\ all_phones = {} /\ business_names = {})

\* a record was returned for a domain whose only signal is a phone number
C9_Witness ==
    /\ pc = "pr_ret"
    /\ ~is_excluded_domain(result.link)
    /\ Len(rows_ret) = 1
    /\ all_emails = {} /\ business_names = {} /\ all_phones # {}
    /\ Len(crawled) >= 2

\* ------------------------------------------------------------------ C10
\* C10: for a result whose domain the pre-filter rejects, process_result
\* returns no record and polite_get is never called.
C10_PrefilterBeforeFetch ==
    is_excluded_domain(result.link) =>
        /\ fetchLog = <<>>
        /\ pc \in {"process_result", "pr_ret"}
        /\ pc = "pr_ret" => rows_ret = <<>>

\* process_result has returned for a block-listed domain
C10_Witness ==
    /\ pc = "pr_ret"
    /\ is_excluded_domain(result.link)
    /\ Contains(normalize_domain(result.link), <<"roof">>)
    /\ rows_ret = <<>>
    /\ fetchLog = <<>>

\* ------------------------------------------------------------------ C11
\* the pairs before the one at <<cidx, sidx>> have completed
SomePairCompleted == sink # "unopened" /\ <<cidx, sidx>> # <<1, 1>>

\* C11: once a (city, service) pair has completed, the header and every row
\* of the completed pairs are in the flushed part of the file, at every later
\* point of the run: only rows of the pair in progress can be unflushed.
C11_CompletedPairsFlushed ==
    SomePairCompleted =>
        \A i \in 1..Len(written) :
            written[i].batch # <<cidx, sidx>> =>
                i <= Len(flushed) /\ flushed[i] = written[i]

\* the second pair is in progress with a row not yet flushed, while the row
\* of the first pair is flushed
C11_Witness ==
    /\ pc = "truncated"
    /\ cidx = 2
    /\ Len(written) > Len(flushed)
    /\ \E i \in 1..Len(flushed) : flushed[i].kind = "row" /\ flushed[i].batch = <<1, 1>>

\* ------------------------------------------------------------------ C12
\* C12: once the provider is constructed, no failure of a search, of a page
\* fetch or of malformed data propagates and halts the run: the only abort is
\* the configuration error raised before run_pipeline is entered.
C12_FailuresContained ==
    pc \in {"raised", "crashed"} => (exc = "RuntimeError" /\ sink = "unopened")

\* ------------------------------------------------------------------ C13
\* C13: with a mandatory credential missing, provider construction raises and
\* the run aborts: no query is executed, no page is fetched and the output
\* file is never opened.
C13_MissingCredentialAbortsFirst ==
    ~credentials =>
        /\ pc \in {"main", "crashed"}
        /\ pc = "crashed" => exc = "RuntimeError"
        /\ searchLog = <<>>
        /\ fetchLog = <<>>
        /\ sink = "unopened"
        /\ written = <<>>

\* the run has aborted on the missing credential
C13_Witness ==
    /\ ~credentials
    /\ pc = "crashed"
    /\ exc = "RuntimeError"
    /\ sink = "unopened"

\* ------------------------------------------------------------------ C14
\* the values of a "; "-joined field
RECURSIVE Fields(_)
Fields(s) ==
    IF s = <<>> THEN <<>>
    ELSE IF \E i \in 1..Len(s) : s[i] = "; "
         THEN LET i == CHOOSE k \in 1..Len(s) : s[k] = "; " /\ \A j \in 1..(k - 1) : s[j] # "; "
              IN  <<SubSeq(s, 1, i - 1)>> \o Fields(SubSeq(s, i + 1, Len(s)))
         ELSE <<s>>

\* the entries listed in a suppression file, as written
Listed(file) ==
    {strip(file[i]) : i \in {j \in 1..Len(file) : strip(file[j]) # <<>> /\ Head(strip(file[j])) # "#"}}

\* C14: no record holds an e-mail address that is listed in the suppression
\* file, or whose part after "@" is listed there, whatever the letter case of
\* the entry and of the address.
C14_NoSuppressedEmail ==
    pc = "pr_ret" =>
        \A k \in 1..Len(rows_ret) :
            \A e \in Range(Fields(rows_ret[k].email)) :
                \A file \in SuppressionFiles :
                    load_suppression_list(file) = suppression =>
                        \A entry \in Listed(file) :
                            /\ Lower(e) # Lower(entry)
                            /\ Lower(DomainPart(e)) # Lower(entry)

\* a record was returned for a domain one of whose pages carries
\* Sales@Blocked.com, with Blocked.COM listed, and another address got through
C14_Witness ==
    /\ pc = "pr_ret"
    /\ suppression = {<<"blocked", "com">>}
    /\ \E i \in 1..Len(crawled) :
          /\ ESales \in crawled[i].soup.mailto
          /\ ~page_disallows_marketing(crawled[i].soup.text)
    /\ Len(rows_ret) = 1
    /\ Fields(rows_ret[1].email) # <<>>

\* ------------------------------------------------------------------ C15
\* the keywords of a set that occur in the lower-cased text
KeywordsPresent(keywords, text) ==
    {k \in keywords :
        \E w \in text : LowerTok(w) = k \/ <<k, LowerTok(w)>> \in SubstringOf}

\* C15: the classifier returns true exactly when the number of distinct
\* positive keywords in the lower-cased text is at least the profile minimum
\* and strictly greater than the number of distinct negative keywords in it;
\* a text with no positive keyword never qualifies, whatever the minimum.
C15_QualifiesIffScores ==
    pc \in {"classified", "reclassified"} =>
        LET pos == Cardinality(KeywordsPresent(cls_profile.positive, cls_text))
            neg == Cardinality(KeywordsPresent(cls_profile.negative, cls_text))
        IN  /\ cls_ret <=> (pos >= cls_profile.min_positive /\ pos > neg)
            /\ pos = 0 => ~cls_ret

\* the classifier was called with a minimum of 0 on a text without any
\* keyword, and rejected it
C15_Witness ==
    /\ pc = "classified"
    /\ cls_profile.min_positive = 0
    /\ cls_text = {}
    /\ cls_pos = 0 /\ cls_neg = 0
    /\ ~cls_ret

\* ------------------------------------------------------------------ C16
\* C16: for a fixed profile, the positive score of a text to which an
\* occurrence of a positive keyword was appended is not less than the score
\* of the text before.
C16_PositiveScoreMonotone ==
    [][(pc = "appended" /\ pc' = "reclassified") => cls_pos' >= cls_pos]_vars

\* a keyword was appended to a text that scored 2, and the text now scores 4
\* (nails counts for nail as well, hair salon for salon as well)
C16_Witness ==
    /\ pc = "reclassified"
    /\ cls_profile = BeautyProfile
    /\ cls_text = {"nails", "Hair Salon"}
    /\ cls_pos = 4

\* ------------------------------------------------------------------ C17
\* the values of a field are in strictly ascending order
Ascending(vals) == \A i \in 1..(Len(vals) - 1) : Less(vals[i], vals[i + 1])

\* C17: in a record, email and business_name are the "; "-joined, sorted,
\* distinct accumulated values, and phone is the "; "-joined first 3 of the
\* sorted accumulated phones.
C17_FieldsSortedJoinedCapped ==
    (pc = "pr_ret" /\ Len(rows_ret) = 1) =>
        LET row == rows_ret[1]
            emails == Fields(row.email)
            names  == Fields(row.business_name)
            phones == Fields(row.phone)
        IN  /\ Ascending(emails) /\ Range(emails) = all_emails
            /\ Ascending(names) /\ Range(names) = business_names
            /\ Ascending(phones) /\ Range(phones) \subseteq all_phones
            /\ Len(phones) <= 3
            /\ Len(phones) = (IF Cardinality(all_phones) < 3 THEN Cardinality(all_phones) ELSE 3)
            /\ \A p \in all_phones \ Range(phones) : \A q \in Range(phones) : Less(q, p)

\* a record for a domain with four phone numbers and two addresses: the
\* phone field holds three of them
C17_Witness ==
    /\ pc = "pr_ret"
    /\ Len(rows_ret) = 1
    /\ Cardinality(all_phones) = 4
    /\ Cardinality(all_emails) >= 2
    /\ Len(Fields(rows_ret[1].phone)) = 3

\* ------------------------------------------------------------------ C18
\* the first polite_get of the crawl, that of the homepage, failed or gave
\* no content
HomeFetchFailed == fetchLog # <<>> /\ ~fetchLog[1].ok

\* C18: when the homepage fetch fails or returns no content, crawl_site
\* returns the empty list and fetches no other URL, and process_result
\* returns no record.
C18_HomeFailureYieldsNothing ==
    HomeFetchFailed =>
        /\ Len(fetchLog) = 1
        /\ crawled = <<>>
        /\ pc \in {"crawl_ret", "pr_ret"}
        /\ pc = "pr_ret" => rows_ret = <<>>

\* process_result has returned for a domain whose homepage fetch failed
C18_Witness ==
    /\ pc = "pr_ret"
    /\ HomeFetchFailed
    /\ fetchLog[1].url = HomeUrl(result.link)
    /\ rows_ret = <<>>

\* ------------------------------------------------------------------ C19
\* C19: within one crawl_site call no URL is fetched twice, the homepage
\* included, and the returned list holds no URL twice.
C19_NoUrlFetchedTwice ==
    /\ \A i \in 1..Len(fetchLog) : \A j \in 1..Len(fetchLog) :
           i < j => fetchLog[i].url # fetchLog[j].url
    /\ \A i \in 1..Len(crawled) : \A j \in 1..Len(crawled) :
           i < j => crawled[i].url # crawled[j].url

\* ------------------------------------------------------------------ C20
\* C20: a fetch of a frontier URL is made only while the page budget is not
\* used up; when it fails, no page is added, the budget is untouched and the
\* loop goes on with the rest of the frontier; when it succeeds, one page is
\* added.
C20_FailedFetchCostsNothing ==
    [][(pc = "crawl_loop" /\ Len(fetchLog') = Len(fetchLog) + 1) =>
          /\ Len(crawled) < max_pages
          /\ IF fetchLog'[Len(fetchLog')].ok
             THEN Len(crawled') = Len(crawled) + 1
             ELSE /\ crawled' = crawled
                  /\ pc' = "crawl_loop"
                  /\ to_visit' = Tail(to_visit)]_vars

\* with a budget of 2, the homepage was fetched, the first header link
\* failed, and the second one filled the budget
C20_Witness ==
    /\ pc = "crawl_ret"
    /\ max_pages = 2
    /\ Len(fetchLog) = 3
    /\ fetchLog[1].ok /\ ~fetchLog[2].ok /\ fetchLog[3].ok
    /\ Len(crawled) = 2
    /\ crawled[2].url = fetchLog[3].url

\* ------------------------------------------------------------------ C21
\* the anchors in the order in which they stand in the document
DocOrder == <<AContact, AHelp, AHome, ABlog, AExt, AFooter>>

\* the links discover_header_links harvests from a page, in the order in which
\* the walk over its header and nav sections meets them
DiscoveryOrder(base_url, soup) ==
    LET kept == SelectSeq(DocOrder, LAMBDA a :
                    /\ a \in soup.anchors
                    /\ urljoin(base_url, a.href) \in discover_header_links(base_url, soup))
    IN  [i \in 1..Len(kept) |-> urljoin(base_url, kept[i].href)]

\* position of a link in the discovery order
DiscoveryIndex(url, order) == CHOOSE i \in 1..Len(order) : order[i] = url

\* C21: crawl_site returns the homepage first, then the fetched frontier
\* pages in the order in which their links were discovered on the homepage.
C21_DiscoveryOrder ==
    (pc = "crawl_ret" /\ crawled # <<>>) =>
        LET order == DiscoveryOrder(base_origin(start_url), crawled[1].soup)
        IN  /\ crawled[1].url = HomeUrl(start_url)
            /\ \A i \in 2..Len(crawled) : \A j \in 2..Len(crawled) :
                   i < j => DiscoveryIndex(crawled[i].url, order)
                              <= DiscoveryIndex(crawled[j].url, order)

\* ------------------------------------------------------------------ C22
\* C22: provider.search is called once for each page of start_page..end_page,
\* in ascending order, with start_index (p-1)*10 + 1; an empty page does not
\* end the iteration; with start_page > end_page there is no call and the
\* result is empty.
C22_OneSearchPerPage ==
    /\ \A i \in 1..Len(searchLog) :
           /\ searchLog[i].page = start_page + i - 1
           /\ searchLog[i].page <= end_page
           /\ searchLog[i].start_index = (searchLog[i].page - 1) * 10 + 1
    /\ pc = "collect_ret" =>
           /\ Len(searchLog) = (IF start_page > end_page THEN 0 ELSE end_page - start_page + 1)
           /\ start_page > end_page => raw = <<>>

\* both pages of the range 1..2 were searched although the first one came
\* back empty
C22_Witness ==
    /\ pc = "collect_ret"
    /\ start_page = 1 /\ end_page = 2
    /\ Len(searchLog) = 2
    /\ searchLog[1].n = 0
    /\ searchLog[2].start_index = 11
    /\ searchLog[2].n > 0

\* ------------------------------------------------------------------ C23
\* the batch at <<cidx, sidx>> has its result list and works through it
BatchRunning ==
    sink = "open" /\ pc \notin {"pair", "collect", "collect_ret", "deduped", "raised"}

NothingFound(soup) ==
    /\ \A a \in soup.mailto : a = <<>>
    /\ \A m \in soup.matches : clean_email_match(m) = NoEmail

\* C24: the LLM fallback is called for a page only when the four
\* deterministic passes found no address, and when it fails (no API key,
\* transport failure, non-JSON reply, parse error) nothing is raised and
\* extract_emails returns the empty set.
C24_LlmOnlyWhenEmptyAndSilent ==
    pc = "extracted" =>
        /\ ext_called => NothingFound(ext_soup)
        /\ (ext_called /\ ~ext_llm.ok) => ext_ret = {}
        /\ exc = "none"

\* the fallback was called on a page whose only candidates were rejected, the
\* reply was no JSON, and the result is empty
C24_Witness ==
    /\ pc = "extracted"
    /\ ext_called
    /\ ext_soup.mailto = {}
    /\ ext_soup.matches = {ETest, ELong}
    /\ ext_llm.why = "non_json"
    /\ ext_ret = {}

\* ------------------------------------------------------------------ C25
\* C25: the set extract_emails returns holds no known placeholder address and
\* no address shorter than 5 or longer than 100 characters, whichever pass
\* found it.
C25_NoPlaceholderNoBadLength ==
    pc = "extracted" =>
        \A e \in ext_ret :
            /\ Lower(e) \notin false_positives
            /\ EmailLen(e) >= 5
            /\ EmailLen(e) <= 100

\* ------------------------------------------------------------------ C26
\* C26: in a record, page_url_found is the URL of the first crawled page of
\* the domain that does not disallow marketing; such a page exists for every
\* record, so the search-result link is never the fallback.
C26_PageUrlIsFirstProcessedPage ==
    (pc = "pr_ret" /\ Len(rows_ret) = 1) =>
        /\ page_urls # <<>>
        /\ \E i \in 1..Len(crawled) :
              /\ ~page_disallows_marketing(crawled[i].soup.text)
              /\ \A j \in 1..(i - 1) : page_disallows_marketing(crawled[j].soup.text)
              /\ rows_ret[1].page_url_found = crawled[i].url

\* a record whose homepage disallows marketing: it names the second page,
\* and a third page was processed after it
C26_Witness ==
    /\ pc = "pr_ret"
    /\ Len(rows_ret) = 1
    /\ Len(crawled) = 3
    /\ page_disallows_marketing(crawled[1].soup.text)
    /\ ~page_disallows_marketing(crawled[2].soup.text)
    /\ ~page_disallows_marketing(crawled[3].soup.text)
    /\ rows_ret[1].page_url_found = crawled[2].url

\* ------------------------------------------------------------------ C27
\* the links harvested from the homepage (none before it is fetched, or when
\* the budget ends the crawl at the homepage)
Frontier ==
    IF crawled = <<>> \/ max_pages <= 1 THEN {}
    ELSE discover_header_links(base_origin(start_url), crawled[1].soup)

\* one homepage fetch, then at most one fetch for each harvested link
FetchesBounded ==
    /\ Len(fetchLog) <= 1 + Cardinality(Frontier)
    /\ \A i \in 2..Len(fetchLog) :
           /\ fetchLog[i].url \in Frontier
           /\ \A j \in 2..Len(fetchLog) : i # j => fetchLog[i].url # fetchLog[j].url

\* C27: crawl_site terminates; it fetches the homepage once and each distinct
\* link harvested from it at most once; the frontier never grows during the
\* loop; so the fetch attempts are at most 1 + the frontier size.
C27_CrawlTerminates ==
    /\ <>(pc = "crawl_ret")
    /\ []FetchesBounded
    /\ [][pc = "crawl_loop" => (to_visit' = to_visit \/ to_visit' = Tail(to_visit))]_vars

\* a crawl with a budget of 2 that has returned after 3 fetch attempts, two
\* of them failed
C27_Witness ==
    /\ pc = "crawl_ret"
    /\ max_pages = 2
    /\ Len(fetchLog) = 3
    /\ ~fetchLog[2].ok /\ ~fetchLog[3].ok
    /\ Cardinality(Frontier) >= 2
    /\ Len(crawled) = 1

====
